---- MODULE Spec2Model ----
(***************************************************************************)
(* Model of the comparison, clustering and delta-synthesis engine:         *)
(* BasicGraphBuilder.buildGraph (pairwise comparison, weighted edges) and  *)
(* BasicSuggestionEngine.generateSuggestions (clusters, authority, deltas, *)
(* edit synthesis, unchanged report).                                      *)
(*                                                                         *)
(* Numbers are exact rationals [n, d] in lowest terms.  Strings that the   *)
(* code normalises or searches are sequences of tokens: a word, one        *)
(* whitespace character or one punctuation character per token.           *)
(***************************************************************************)
EXTENDS Integers, Sequences, FiniteSets, TLC

VARIABLES nodes, inventory, edges, built, pc, clusters, authoritativeSections, deltas,
          report

vars == <<nodes, inventory, edges, built, pc, clusters, authoritativeSections, deltas, report>>

(***************************************************************************)
(* Bounds of the model.                                                    *)
(***************************************************************************)
\* longest property list of one kind in one section
MaxProps == 2
\* longest edge list of a graph handed in by a caller
MaxEdges == 2

(***************************************************************************)
(* Exact rational arithmetic (JavaScript numbers, rounding left out).      *)
(***************************************************************************)
RECURSIVE GCD(_, _)
GCD(a, b) == IF b = 0 THEN a ELSE GCD(b, a % b)

Abs(x) == IF x < 0 THEN 0 - x ELSE x

Rat(n, d) ==
  LET g == GCD(Abs(n), d) IN [n |-> n \div g, d |-> d \div g]

RInt(k) == [n |-> k, d |-> 1]
RAdd(a, b) == Rat(a.n * b.d + b.n * a.d, a.d * b.d)
RMul(a, b) == Rat(a.n * b.n, a.d * b.d)
RDivInt(a, k) == Rat(a.n, a.d * k)
RLt(a, b) == a.n * b.d < b.n * a.d
RLe(a, b) == a.n * b.d <= b.n * a.d
RZero == RInt(0)
ROne == RInt(1)
\* a decimal literal with two places, 0.85 = Pct(85)
Pct(k) == Rat(k, 100)

(***************************************************************************)
(* Sequence helpers.                                                       *)
(***************************************************************************)
Range(s) == {s[i] : i \in 1..Len(s)}

RECURSIVE SeqsUpTo(_, _)
\* all sequences over S of length at most n
SeqsUpTo(S, n) ==
  IF n = 0 THEN {<<>>}
  ELSE LET shorter == SeqsUpTo(S, n - 1)
       IN shorter \cup {Append(s, x) : s \in {t \in shorter : Len(t) = n - 1}, x \in S}

RECURSIVE Filter(_, _)
\* Array.prototype.filter with the set of kept elements given by Keep
Filter(s, Keep) ==
  IF s = <<>> THEN <<>>
  ELSE IF Head(s) \in Keep THEN <<Head(s)>> \o Filter(Tail(s), Keep)
       ELSE Filter(Tail(s), Keep)

RECURSIVE AtIndicesFrom(_, _, _)
AtIndicesFrom(s, I, i) ==
  IF i > Len(s) THEN <<>>
  ELSE IF i \in I THEN <<s[i]>> \o AtIndicesFrom(s, I, i + 1)
       ELSE AtIndicesFrom(s, I, i + 1)

\* the elements of s at the indices in I, in order
AtIndices(s, I) == AtIndicesFrom(s, I, 1)

\* index of the first element of s in Keep, 0 when there is none (Array.find)
FirstIn(s, Keep) ==
  IF \E i \in 1..Len(s) : s[i] \in Keep
  THEN CHOOSE i \in 1..Len(s) : s[i] \in Keep /\ \A j \in 1..(i - 1) : s[j] \notin Keep
  ELSE 0

(***************************************************************************)
(* Strings as token sequences.                                             *)
(***************************************************************************)
\* the characters \s matches and trim strips
Whitespace == {" ", "\n"}
\* the character class [.,;:-] of normalizeName
NamePunct == {".", ",", ";", ":", "-"}

\* String.prototype.toLowerCase on one token of the vocabulary
LowerTok(t) ==
  CASE t = "CTO" -> "cto"
    [] t = "CFO" -> "cfo"
    [] t = "Chief" -> "chief"
    [] t = "Technology" -> "technology"
    [] t = "Officer" -> "officer"
    [] t = "Officers" -> "officers"
    [] t = "John" -> "john"
    [] t = "Doe" -> "doe"
    [] t = "Mark" -> "mark"
    [] t = "Miller" -> "miller"
    [] t = "Introduction" -> "introduction"
    [] t = "Designated" -> "designated"
    [] t = "Designation" -> "designation"
    [] t = "Responsible" -> "responsible"
    [] t = "Signature" -> "signature"
    [] t = "Page" -> "page"
    [] t = "Effective" -> "effective"
    [] t = "Date" -> "date"
    [] t = "Payment" -> "payment"
    [] t = "Terms" -> "terms"
    [] t = "Parties" -> "parties"
    [] OTHER -> t

toLowerCase(s) == [i \in 1..Len(s) |-> LowerTok(s[i])]

RECURSIVE trimStart(_)
trimStart(s) ==
  IF s # <<>> /\ Head(s) \in Whitespace THEN trimStart(Tail(s)) ELSE s

RECURSIVE trimEnd(_)
trimEnd(s) ==
  IF s # <<>> /\ s[Len(s)] \in Whitespace THEN trimEnd(SubSeq(s, 1, Len(s) - 1)) ELSE s

\* String.prototype.trim
trim(s) == trimEnd(trimStart(s))

RECURSIVE collapseWhitespace(_)
\* replace(/\s+/g, ' ')
collapseWhitespace(s) ==
  IF s = <<>> THEN <<>>
  ELSE IF Head(s) \in Whitespace
       THEN <<" ">> \o collapseWhitespace(trimStart(s))
       ELSE <<Head(s)>> \o collapseWhitespace(Tail(s))

IsWord(t) == t \notin Whitespace /\ t \notin NamePunct

RECURSIVE joinWords(_)
\* adjacent word tokens are one word of the string
joinWords(s) ==
  IF Len(s) < 2 THEN s
  ELSE IF IsWord(s[1]) /\ IsWord(s[2])
       THEN joinWords(<<s[1] \o s[2]>> \o SubSeq(s, 3, Len(s)))
       ELSE <<s[1]>> \o joinWords(Tail(s))

RECURSIVE dropPunct(_)
dropPunct(s) ==
  IF s = <<>> THEN <<>>
  ELSE IF Head(s) \in NamePunct THEN dropPunct(Tail(s))
       ELSE <<Head(s)>> \o dropPunct(Tail(s))

\* replace(/[.,;:-]/g, '')
removePunctuation(s) == joinWords(dropPunct(s))

\* the keywords of the policy heuristics that occur inside a lower-case token
KeywordsIn(t) ==
  CASE t = "designated" -> {"designated"}
    [] t = "designation" -> {"designation"}
    [] t = "officer" -> {"officer"}
    [] t = "officers" -> {"officer"}
    [] t = "parties" -> {"parties"}
    [] t = "signature" -> {"signature"}
    [] t = "effective" -> {"effective"}
    [] t = "term" -> {"term"}
    [] t = "terms" -> {"term"}
    [] t = "fee" -> {"fee"}
    [] t = "payment" -> {"payment"}
    [] OTHER -> {}

\* String.prototype.includes for a one-word keyword
includes(s, kw) == \E i \in 1..Len(s) : kw \in KeywordsIn(s[i])

(***************************************************************************)
(* Data model (types, Map).                                                *)
(***************************************************************************)
propertyTypes == <<"Name&Role", "Date", "Terms">>
Kinds == Range(propertyTypes)

\* kind?: string left out, and unit?: string left out
Undefined == <<>>

\* Map.prototype.has / get on the inventory, a Map kept as its entries in
\* insertion order
InvHas(inv, id) == \E i \in 1..Len(inv) : inv[i].id = id
InvGet(inv, id) == inv[CHOOSE i \in 1..Len(inv) : inv[i].id = id].props

\* graph.nodes.find(n => n.id === id): index of the node, 0 for undefined
NodeIndex(ns, id) == FirstIn(ns, {n \in Range(ns) : n.id = id})

(***************************************************************************)
(* BasicGraphBuilder: canonical equality and the greedy comparator.        *)
(***************************************************************************)
roleMap(normalized) ==
  CASE normalized = <<"cto">> -> <<"chief", " ", "technology", " ", "officer">>
    [] normalized = <<"cfo">> -> <<"chief", " ", "financial", " ", "officer">>
    [] normalized = <<"ceo">> -> <<"chief", " ", "executive", " ", "officer">>
    [] normalized = <<"coo">> -> <<"chief", " ", "operating", " ", "officer">>
    [] normalized = <<"vp">> -> <<"vice", " ", "president">>
    [] normalized = <<"svp">> -> <<"senior", " ", "vice", " ", "president">>
    [] OTHER -> normalized

normalizeRole(role) == roleMap(toLowerCase(trim(role)))

normalizeName(name) == removePunctuation(collapseWhitespace(toLowerCase(trim(name))))

\* the match condition inside the loops of compareNameRoles, compareDates
\* and compareTerms
canonicalMatch(kind, a, b) ==
  CASE kind = "Name&Role" ->
         /\ normalizeRole(a.role) = normalizeRole(b.role)
         /\ normalizeName(a.person) = normalizeName(b.person)
    [] kind = "Date" -> a.iso = b.iso
    [] kind = "Terms" -> a.name = b.name /\ a.value = b.value /\ a.unit = b.unit

\* firstFit taking only a property of B spelled as a is
firstFitSameSpelling(kind, a, B, usedB) ==
  LET fits == {i \in 1..Len(B) :
                 /\ i \notin usedB
                 /\ canonicalMatch(kind, a, B[i])
                 /\ [B[i] EXCEPT !.span = a.span] = a}
  IN IF fits = {} THEN 0 ELSE CHOOSE i \in fits : \A j \in fits : i <= j

\* firstFit giving up once a property of B is used
firstFitOnce(kind, a, B, usedB) ==
  LET fits == {i \in 1..Len(B) : usedB = {} /\ canonicalMatch(kind, a, B[i])}
  IN IF fits = {} THEN 0 ELSE CHOOSE i \in fits : \A j \in fits : i <= j

\* firstFit looking at used properties of B too
firstFitAny(kind, a, B, usedB) ==
  LET fits == {i \in 1..Len(B) : canonicalMatch(kind, a, B[i])}
  IN IF fits = {} THEN 0 ELSE CHOOSE i \in fits : \A j \in fits : i <= j

\* the lowest index of B that is unused and matches a, 0 when there is none
firstFit(kind, a, B, usedB) ==
  LET fits == {i \in 1..Len(B) : i \notin usedB /\ canonicalMatch(kind, a, B[i])}
  IN IF fits = {} THEN 0 ELSE CHOOSE i \in fits : \A j \in fits : i <= j

RECURSIVE compareFrom(_, _, _, _, _, _)
\* the loop over side A from index i on, then the sweep over side B
compareFrom(kind, A, B, i, usedB, acc) ==
  IF i > Len(A)
  THEN [acc EXCEPT !.missingInA = AtIndices(B, {k \in 1..Len(B) : k \notin usedB})]
  ELSE LET j == firstFit(kind, A[i], B, usedB)
       IN IF j = 0
          THEN compareFrom(kind, A, B, i + 1, usedB,
                 [acc EXCEPT !.missingInB = Append(@, A[i])])
          ELSE compareFrom(kind, A, B, i + 1, usedB \cup {j},
                 [acc EXCEPT !.matched =
                    Append(@, [prop |-> A[i], spanA |-> A[i].span, spanB |-> B[j].span])])

compareLists(kind, A, B) ==
  compareFrom(kind, A, B, 1, {}, [matched |-> <<>>, missingInB |-> <<>>, missingInA |-> <<>>])

compareNameRoles(rolesA, rolesB) == compareLists("Name&Role", rolesA, rolesB)
compareDates(datesA, datesB) == compareLists("Date", datesA, datesB)
compareTerms(termsA, termsB) == compareLists("Terms", termsA, termsB)

\* String(value) of a term value, number or string
valueText(value) == value.text

\* the value strings the edge builders put into the evidence
evidenceValue(kind, m) ==
  CASE kind = "Name&Role" -> m.role \o <<":", " ">> \o m.person
    [] kind = "Date" -> m.iso
    [] kind = "Terms" ->
         m.name \o <<":", " ">> \o valueText(m.value)
           \o (IF m.unit # Undefined THEN <<" ">> \o m.unit ELSE <<>>)

isOfficerSection(section) ==
  \/ includes(toLowerCase(section.title), "officer")
  \/ includes(toLowerCase(section.title), "designated")
  \/ includes(toLowerCase(section.kind), "officer")

isDateSection(section) ==
  \/ includes(toLowerCase(section.title), "term")
  \/ includes(toLowerCase(section.title), "signature")
  \/ includes(toLowerCase(section.title), "effective")

isTermSection(section) ==
  \/ includes(toLowerCase(section.title), "term")
  \/ includes(toLowerCase(section.title), "fee")
  \/ includes(toLowerCase(section.title), "payment")

\* calculatePolicyBonus giving every pair the bonus of an unknown kind
calculatePolicyBonusDefault(sectionA, sectionB, propType) == Pct(10)

calculatePolicyBonus(sectionA, sectionB, propType) ==
  CASE propType = "Name&Role" ->
         IF isOfficerSection(sectionA) /\ isOfficerSection(sectionB) THEN Pct(90)
         ELSE IF isOfficerSection(sectionA) \/ isOfficerSection(sectionB) THEN Pct(60)
         ELSE Pct(30)
    [] propType = "Date" ->
         IF isDateSection(sectionA) /\ isDateSection(sectionB) THEN Pct(70)
         ELSE IF isDateSection(sectionA) \/ isDateSection(sectionB) THEN Pct(40)
         ELSE Pct(20)
    [] propType = "Terms" ->
         IF isTermSection(sectionA) /\ isTermSection(sectionB) THEN Pct(70)
         ELSE IF isTermSection(sectionA) \/ isTermSection(sectionB) THEN Pct(40)
         ELSE Pct(20)
    [] OTHER -> Pct(10)

Max(a, b) == IF a > b THEN a ELSE b

\* the similarity weight and the policy weight of a kind
wSim(kind) == IF kind = "Name&Role" THEN Pct(70) ELSE Pct(80)

\* wPolicy giving the policy bonus the weight 1
wPolicyWhole(kind) == ROne

wPolicy(kind) == IF kind = "Name&Role" THEN Pct(30) ELSE Pct(20)

\* edgeEvidence with the inSection flags of the two sides exchanged
edgeEvidenceSwapped(kind, cmp, sectionA, sectionB) ==
  [matched |-> [i \in 1..Len(cmp.matched) |->
                  [property |-> kind,
                   value |-> evidenceValue(kind, cmp.matched[i].prop),
                   spans |-> <<cmp.matched[i].spanA, cmp.matched[i].spanB>>]],
   missing |-> [i \in 1..Len(cmp.missingInB) |->
                  [property |-> kind,
                   value |-> evidenceValue(kind, cmp.missingInB[i]),
                   inSection |-> sectionA.id]]
               \o [i \in 1..Len(cmp.missingInA) |->
                     [property |-> kind,
                      value |-> evidenceValue(kind, cmp.missingInA[i]),
                      inSection |-> sectionB.id]]]

\* the evidence the edge builders assemble from a comparison
edgeEvidence(kind, cmp, sectionA, sectionB) ==
  LET matched == [i \in 1..Len(cmp.matched) |->
                    [property |-> kind,
                     value |-> evidenceValue(kind, cmp.matched[i].prop),
                     spans |-> <<cmp.matched[i].spanA, cmp.matched[i].spanB>>]]
      missingB == [i \in 1..Len(cmp.missingInB) |->
                    [property |-> kind,
                     value |-> evidenceValue(kind, cmp.missingInB[i]),
                     inSection |-> sectionB.id]]
      missingA == [i \in 1..Len(cmp.missingInA) |->
                    [property |-> kind,
                     value |-> evidenceValue(kind, cmp.missingInA[i]),
                     inSection |-> sectionA.id]]
  IN [matched |-> matched, missing |-> missingB \o missingA]

\* the weight the edge builders compute
edgeWeight(kind, cmp, sectionA, sectionB, propsA, propsB) ==
  LET totalProperties == Max(Len(propsA), Len(propsB))
      baseSimilarity == Rat(Len(cmp.matched), totalProperties)
      policyBonus == calculatePolicyBonus(sectionA, sectionB, kind)
  IN RAdd(RMul(baseSimilarity, wSim(kind)), RMul(policyBonus, wPolicy(kind)))

\* buildNameRoleEdge, buildDateEdge and buildTermsEdge share this body
buildEdge(kind, cmp, sectionA, sectionB, propsA, propsB) ==
  [from |-> sectionA.id, to |-> sectionB.id, prop |-> kind,
   weight |-> edgeWeight(kind, cmp, sectionA, sectionB, propsA, propsB),
   evidence |-> edgeEvidence(kind, cmp, sectionA, sectionB)]

buildNameRoleEdge(sectionA, sectionB, inventoryA, inventoryB) ==
  buildEdge("Name&Role", compareNameRoles(inventoryA["Name&Role"], inventoryB["Name&Role"]),
            sectionA, sectionB, inventoryA["Name&Role"], inventoryB["Name&Role"])

buildDateEdge(sectionA, sectionB, inventoryA, inventoryB) ==
  buildEdge("Date", compareDates(inventoryA["Date"], inventoryB["Date"]),
            sectionA, sectionB, inventoryA["Date"], inventoryB["Date"])

buildTermsEdge(sectionA, sectionB, inventoryA, inventoryB) ==
  buildEdge("Terms", compareTerms(inventoryA["Terms"], inventoryB["Terms"]),
            sectionA, sectionB, inventoryA["Terms"], inventoryB["Terms"])

\* pairEdges pushing an edge only when the comparison found a match
pairEdgesMatchedOnly(sections, inv, i, j) ==
  IF ~InvHas(inv, sections[i].id) \/ ~InvHas(inv, sections[j].id) THEN <<>>
  ELSE LET a == sections[i]
           b == sections[j]
           ia == InvGet(inv, a.id)
           ib == InvGet(inv, b.id)
           hit(kind) == compareLists(kind, ia[kind], ib[kind]).matched # <<>>
       IN (IF hit("Name&Role") THEN <<buildNameRoleEdge(a, b, ia, ib)>> ELSE <<>>)
          \o (IF hit("Date") THEN <<buildDateEdge(a, b, ia, ib)>> ELSE <<>>)
          \o (IF hit("Terms") THEN <<buildTermsEdge(a, b, ia, ib)>> ELSE <<>>)

\* the edges buildGraph pushes for one pair of sections
pairEdges(sections, inv, i, j) ==
  IF ~InvHas(inv, sections[i].id) \/ ~InvHas(inv, sections[j].id) THEN <<>>
  ELSE LET a == sections[i]
           b == sections[j]
           ia == InvGet(inv, a.id)
           ib == InvGet(inv, b.id)
       IN (IF Len(ia["Name&Role"]) > 0 \/ Len(ib["Name&Role"]) > 0
           THEN <<buildNameRoleEdge(a, b, ia, ib)>> ELSE <<>>)
          \o (IF Len(ia["Date"]) > 0 \/ Len(ib["Date"]) > 0
              THEN <<buildDateEdge(a, b, ia, ib)>> ELSE <<>>)
          \o (IF Len(ia["Terms"]) > 0 \/ Len(ib["Terms"]) > 0
              THEN <<buildTermsEdge(a, b, ia, ib)>> ELSE <<>>)

RECURSIVE buildGraphFrom(_, _, _, _)
\* the nested loops of buildGraph from the pair (i, j) on
buildGraphFrom(sections, inv, i, j) ==
  IF i > Len(sections) THEN <<>>
  ELSE IF j > Len(sections) THEN buildGraphFrom(sections, inv, i + 1, i + 2)
       ELSE pairEdges(sections, inv, i, j) \o buildGraphFrom(sections, inv, i, j + 1)

\* the edges of the graph buildGraph returns (its nodes are the sections)
buildGraph(sections, inv) == buildGraphFrom(sections, inv, 1, 2)

(***************************************************************************)
(* BasicSuggestionEngine: clusters.                                        *)
(***************************************************************************)
\* absent entry of a Record<string, string>, absent result of a lookup
None == "undefined"

hasProps(inv, id, propType) == InvHas(inv, id) /\ Len(InvGet(inv, id)[propType]) > 0

\* neighborsToPush following an edge only out of its from end
neighborsToPushDirected(current, propType, graphEdges, inv, localVisited) ==
  LET pushed == {i \in 1..Len(graphEdges) :
                   /\ graphEdges[i].prop = propType
                   /\ graphEdges[i].from = current
                   /\ graphEdges[i].to \notin localVisited
                   /\ hasProps(inv, graphEdges[i].to, propType)}
      kept == AtIndices(graphEdges, pushed)
  IN [k \in 1..Len(kept) |-> kept[k].to]

\* the neighbours buildClusterBFS pushes while it looks at current
neighborsToPush(current, propType, graphEdges, inv, localVisited) ==
  LET connected == {i \in 1..Len(graphEdges) :
                      /\ graphEdges[i].prop = propType
                      /\ (graphEdges[i].from = current \/ graphEdges[i].to = current)}
      neighbor(i) == IF graphEdges[i].from = current
                     THEN graphEdges[i].to ELSE graphEdges[i].from
      pushed == {i \in connected :
                   /\ neighbor(i) \notin localVisited
                   /\ InvHas(inv, neighbor(i))
                   /\ Len(InvGet(inv, neighbor(i))[propType]) > 0}
      kept == AtIndices(graphEdges, pushed)
  IN [k \in 1..Len(kept) |->
        IF kept[k].from = current THEN kept[k].to ELSE kept[k].from]

RECURSIVE bfsLoop(_, _, _, _, _, _)
\* the while loop of buildClusterBFS; the visited set is shared with the caller
bfsLoop(queue, localVisited, cluster, propType, graphEdges, inv) ==
  IF queue = <<>> THEN [cluster |-> cluster, visited |-> localVisited]
  ELSE LET current == Head(queue)
           rest == Tail(queue)
           seen == localVisited \cup {current}
       IN IF current \in localVisited
          THEN bfsLoop(rest, localVisited, cluster, propType, graphEdges, inv)
          ELSE IF ~hasProps(inv, current, propType)
               THEN bfsLoop(rest, seen, cluster, propType, graphEdges, inv)
               ELSE bfsLoop(rest \o neighborsToPush(current, propType, graphEdges, inv, seen),
                            seen, Append(cluster, current), propType, graphEdges, inv)

buildClusterBFS(startSectionId, propType, graphEdges, inv, visited) ==
  bfsLoop(<<startSectionId>>, visited, <<>>, propType, graphEdges, inv)

RECURSIVE clustersOfType(_, _, _, _, _, _)
\* the loop over the inventory entries for one property type
clustersOfType(propType, graphEdges, inv, i, visited, acc) ==
  IF i > Len(inv) THEN acc
  ELSE IF inv[i].id \in visited \/ Len(inv[i].props[propType]) = 0
       THEN clustersOfType(propType, graphEdges, inv, i + 1, visited, acc)
       ELSE LET r == buildClusterBFS(inv[i].id, propType, graphEdges, inv, visited)
            IN clustersOfType(propType, graphEdges, inv, i + 1, r.visited,
                              IF Len(r.cluster) > 0 THEN Append(acc, r.cluster) ELSE acc)

findAuthorityClusters(graphEdges, inv) ==
  [propType \in Kinds |-> clustersOfType(propType, graphEdges, inv, 1, {}, <<>>)]

(***************************************************************************)
(* BasicSuggestionEngine: authority selection.                             *)
(***************************************************************************)
getSectionPolicyScore(section, propType) ==
  LET title == toLowerCase(section.title)
      kind == toLowerCase(section.kind)
  IN CASE propType = "Name&Role" ->
            IF \/ includes(title, "designated")
               \/ (includes(title, "designation") /\ includes(title, "officer"))
            THEN 4
            ELSE IF \/ (includes(title, "designated") /\ includes(title, "officer"))
                    \/ includes(kind, "officer")
            THEN 5
            ELSE IF includes(title, "officer") \/ includes(title, "parties") THEN 4
            ELSE IF includes(title, "signature") THEN 3
            ELSE 2
       [] propType = "Date" ->
            IF includes(title, "effective") \/ includes(title, "term") \/ includes(kind, "term")
            THEN 4 ELSE 2
       [] propType = "Terms" ->
            IF includes(title, "term") \/ includes(title, "fee") \/ includes(title, "payment")
            THEN 4 ELSE 2
       [] OTHER -> 2

\* Score = property count (70%) + policy bonus (30%)
authorityScore(propertyCount, policyScore) ==
  RAdd(RMul(RInt(propertyCount), Pct(70)), RMul(RInt(policyScore), Pct(30)))

RECURSIVE Flatten(_)
Flatten(ss) == IF ss = <<>> THEN <<>> ELSE Head(ss) \o Flatten(Tail(ss))

RECURSIVE bestOfLast(_, _, _, _, _, _, _)
\* bestOf with score >= bestScore: the last of the best sections wins
bestOfLast(members, propType, ns, inv, i, bestSection, bestScore) ==
  IF i > Len(members) THEN bestSection
  ELSE IF ~InvHas(inv, members[i]) \/ NodeIndex(ns, members[i]) = 0
       THEN bestOfLast(members, propType, ns, inv, i + 1, bestSection, bestScore)
       ELSE LET section == ns[NodeIndex(ns, members[i])]
                score == authorityScore(Len(InvGet(inv, members[i])[propType]),
                                        getSectionPolicyScore(section, propType))
            IN IF RLe(bestScore, score)
               THEN bestOfLast(members, propType, ns, inv, i + 1, members[i], score)
               ELSE bestOfLast(members, propType, ns, inv, i + 1, bestSection, bestScore)

RECURSIVE bestOf(_, _, _, _, _, _, _)
\* the two nested loops over the clusters of one type, as one loop over the
\* members in cluster order
bestOf(members, propType, ns, inv, i, bestSection, bestScore) ==
  IF i > Len(members) THEN bestSection
  ELSE IF ~InvHas(inv, members[i]) \/ NodeIndex(ns, members[i]) = 0
       THEN bestOf(members, propType, ns, inv, i + 1, bestSection, bestScore)
       ELSE LET section == ns[NodeIndex(ns, members[i])]
                score == authorityScore(Len(InvGet(inv, members[i])[propType]),
                                        getSectionPolicyScore(section, propType))
            IN IF RLt(bestScore, score)
               THEN bestOf(members, propType, ns, inv, i + 1, members[i], score)
               ELSE bestOf(members, propType, ns, inv, i + 1, bestSection, bestScore)

selectPrimaryAuthoritiesFromClusters(cl, ns, inv) ==
  [propType \in Kinds |-> bestOf(Flatten(cl[propType]), propType, ns, inv, 1, None, RInt(0 - 1))]

(***************************************************************************)
(* BasicSuggestionEngine: deltas.                                          *)
(***************************************************************************)
getPropertyValue(prop, propType) ==
  CASE propType = "Name&Role" -> prop.role \o <<":", " ">> \o prop.person
    [] propType = "Date" -> prop.iso
    [] propType = "Terms" ->
         prop.name \o <<":", " ">> \o valueText(prop.value)
           \o (IF prop.unit # Undefined THEN <<" ">> \o prop.unit ELSE <<>>)
    [] OTHER -> <<>>

RECURSIVE refOf(_, _, _, _, _, _)
\* the most complete section of a cluster: the first one with the highest count
refOf(cluster, propType, inv, i, refSection, maxProps) ==
  IF i > Len(cluster) THEN refSection
  ELSE IF ~InvHas(inv, cluster[i])
       THEN refOf(cluster, propType, inv, i + 1, refSection, maxProps)
       ELSE LET propCount == Len(InvGet(inv, cluster[i])[propType])
            IN IF propCount > maxProps
               THEN refOf(cluster, propType, inv, i + 1, cluster[i], propCount)
               ELSE refOf(cluster, propType, inv, i + 1, refSection, maxProps)

\* referenceSection taking the member with the fewest properties
referenceSectionSmallest(cluster, propType, inv) ==
  IF cluster = <<>> THEN None
  ELSE cluster[CHOOSE i \in 1..Len(cluster) :
                 \A j \in 1..Len(cluster) :
                   \/ Len(InvGet(inv, cluster[i])[propType]) < Len(InvGet(inv, cluster[j])[propType])
                   \/ (Len(InvGet(inv, cluster[i])[propType])
                         = Len(InvGet(inv, cluster[j])[propType]) /\ i <= j)]

\* referenceSection taking the first member whatever its count
referenceSectionFirst(cluster, propType, inv) ==
  IF cluster = <<>> THEN None ELSE cluster[1]

referenceSection(cluster, propType, inv) == refOf(cluster, propType, inv, 1, None, 0)

\* missingProps reporting every property of the reference
missingPropsAll(refProps, currentProps, propType) == refProps

\* the properties of the reference whose value string no property of the
\* current section has
missingProps(refProps, currentProps, propType) ==
  AtIndices(refProps,
    {i \in 1..Len(refProps) :
       ~\E j \in 1..Len(currentProps) :
          getPropertyValue(currentProps[j], propType) = getPropertyValue(refProps[i], propType)})

\* graph.edges.find(...) ?.weight || 0.75
edgeConfidence(graphEdges, propType, refSection, sectionId) ==
  LET k == FirstIn(graphEdges,
             {e \in Range(graphEdges) :
                /\ e.prop = propType
                /\ \/ (e.from = refSection /\ e.to = sectionId)
                   \/ (e.from = sectionId /\ e.to = refSection)})
  IN IF k # 0 /\ graphEdges[k].weight # RZero THEN graphEdges[k].weight ELSE Pct(75)

\* the deltas of one cluster
clusterDeltas(cluster, propType, graphEdges, inv) ==
  LET refSection == referenceSection(cluster, propType, inv)
  IN IF refSection = None THEN <<>>
     ELSE LET refProps == InvGet(inv, refSection)[propType]
              others == {i \in 1..Len(cluster) :
                           /\ cluster[i] # refSection
                           /\ InvHas(inv, cluster[i])
                           /\ missingProps(refProps, InvGet(inv, cluster[i])[propType],
                                           propType) # <<>>}
              targets == AtIndices(cluster, others)
          IN [k \in 1..Len(targets) |->
                [targetSection |-> targets[k],
                 propType |-> propType,
                 missingValues |-> missingProps(refProps, InvGet(inv, targets[k])[propType],
                                                propType),
                 sourceSection |-> refSection,
                 confidence |-> edgeConfidence(graphEdges, propType, refSection, targets[k])]]

RECURSIVE deltasOfClusters(_, _, _, _)
deltasOfClusters(clusterList, propType, graphEdges, inv) ==
  IF clusterList = <<>> THEN <<>>
  ELSE clusterDeltas(Head(clusterList), propType, graphEdges, inv)
         \o deltasOfClusters(Tail(clusterList), propType, graphEdges, inv)

\* first loop of computeDeltasFromClusters, over Object.entries(clusters)
clusterPass(cl, graphEdges, inv) ==
  deltasOfClusters(cl["Name&Role"], "Name&Role", graphEdges, inv)
    \o deltasOfClusters(cl["Date"], "Date", graphEdges, inv)
    \o deltasOfClusters(cl["Terms"], "Terms", graphEdges, inv)

\* `${edge.from}-${edge.to}-${edge.prop}`
pairKey(edge) == <<edge.from, "-", edge.to, "-", edge.prop>>

\* fallbackDelta targeting the to end whatever it holds
fallbackDeltaAnyTarget(edge, inv) ==
  IF ~InvHas(inv, edge.from) \/ ~InvHas(inv, edge.to) THEN <<>>
  ELSE LET fromProps == InvGet(inv, edge.from)[edge.prop]
           toProps == InvGet(inv, edge.to)[edge.prop]
       IN IF Len(fromProps) > 0
          THEN <<[targetSection |-> edge.to, propType |-> edge.prop,
                  missingValues |-> fromProps, sourceSection |-> edge.from,
                  confidence |-> edge.weight]>>
          ELSE IF Len(toProps) > 0
          THEN <<[targetSection |-> edge.from, propType |-> edge.prop,
                  missingValues |-> toProps, sourceSection |-> edge.to,
                  confidence |-> edge.weight]>>
          ELSE <<>>

\* the delta the fallback loop pushes for one edge, if any
fallbackDelta(edge, inv) ==
  IF ~InvHas(inv, edge.from) \/ ~InvHas(inv, edge.to) THEN <<>>
  ELSE LET fromProps == InvGet(inv, edge.from)[edge.prop]
           toProps == InvGet(inv, edge.to)[edge.prop]
       IN IF Len(fromProps) > 0 /\ Len(toProps) = 0
          THEN <<[targetSection |-> edge.to, propType |-> edge.prop,
                  missingValues |-> fromProps, sourceSection |-> edge.from,
                  confidence |-> edge.weight]>>
          ELSE IF Len(toProps) > 0 /\ Len(fromProps) = 0
          THEN <<[targetSection |-> edge.from, propType |-> edge.prop,
                  missingValues |-> toProps, sourceSection |-> edge.to,
                  confidence |-> edge.weight]>>
          ELSE <<>>

RECURSIVE fallbackPass(_, _, _, _)
\* second loop of computeDeltasFromClusters
fallbackPass(graphEdges, inv, i, processedPairs) ==
  IF i > Len(graphEdges) THEN <<>>
  ELSE IF pairKey(graphEdges[i]) \in processedPairs
       THEN fallbackPass(graphEdges, inv, i + 1, processedPairs)
       ELSE fallbackDelta(graphEdges[i], inv)
              \o fallbackPass(graphEdges, inv, i + 1,
                              processedPairs \cup {pairKey(graphEdges[i])})

computeDeltasFromClusters(cl, graphEdges, inv) ==
  clusterPass(cl, graphEdges, inv) \o fallbackPass(graphEdges, inv, 1, {})

(***************************************************************************)
(* BasicSuggestionEngine: edit synthesis.                                  *)
(***************************************************************************)
\* the three characters the first list-item pattern of findAnchor starts with
PatternBullet == "a-circumflex euro cent"
Digits == {"1", "2", "3"}
SentenceEnd == {".", "!", "?"}

\* a token \w+ matches
IsWordToken(t) ==
  t \notin Whitespace /\ t \notin NamePunct /\ t \notin SentenceEnd /\ t # PatternBullet

\* the number of tokens the list-item marker of pattern p takes at position i
\* of the content, 0 when no marker starts there
markerLen(p, content, i) ==
  CASE p = 1 -> IF content[i] = PatternBullet THEN 1 ELSE 0
    [] p = 2 -> IF content[i] \in Digits /\ i < Len(content) /\ content[i + 1] = "."
                THEN 2 ELSE 0
    [] p = 3 -> IF content[i] = "-" THEN 1 ELSE 0

RECURSIVE skipWhitespace(_, _)
\* the first index from i on that holds no whitespace
skipWhitespace(content, i) ==
  IF i <= Len(content) /\ content[i] \in Whitespace THEN skipWhitespace(content, i + 1) ELSE i

\* the index of the last token of a match of pattern p starting at i, 0 for none
matchEnd(p, content, i) ==
  LET m == markerLen(p, content, i)
      w == skipWhitespace(content, i + m)
  IN IF m > 0 /\ w > i + m /\ w <= Len(content) /\ IsWordToken(content[w]) THEN w ELSE 0

RECURSIVE matchesFrom(_, _, _)
\* content.match(new RegExp(pattern, 'g')) from position i on
matchesFrom(p, content, i) ==
  IF i > Len(content) THEN <<>>
  ELSE LET e == matchEnd(p, content, i)
       IN IF e = 0 THEN matchesFrom(p, content, i + 1)
          ELSE <<SubSeq(content, i, e)>> \o matchesFrom(p, content, e + 1)

\* the tokens of s before the first token in Seps: s.split(Seps)[0]
firstPiece(s, Seps) ==
  LET k == FirstIn(s, Seps) IN IF k = 0 THEN s ELSE SubSeq(s, 1, k - 1)

RECURSIVE charLen(_)
charLen(s) == IF s = <<>> THEN 0 ELSE Len(Head(s)) + charLen(Tail(s))

RECURSIVE substring(_, _)
\* s.substring(0, n), cut at a token boundary
substring(s, n) ==
  IF s = <<>> \/ Len(Head(s)) > n THEN <<>>
  ELSE <<Head(s)>> \o substring(Tail(s), n - Len(Head(s)))

findAnchor(section, propType) ==
  LET content == section.content
      listMatches(p) == matchesFrom(p, content, 1)
      hit == IF propType # "Name&Role" THEN 0
             ELSE IF listMatches(1) # <<>> THEN 1
             ELSE IF listMatches(2) # <<>> THEN 2
             ELSE IF listMatches(3) # <<>> THEN 3
             ELSE 0
      firstLine == firstPiece(content, {"\n"})
      firstSentence == firstPiece(content, SentenceEnd)
  IN IF hit # 0
     THEN [text |-> listMatches(hit)[Len(listMatches(hit))],
           strategy |-> "after_last_list_item"]
     ELSE IF Len(trim(firstLine)) > 0
     THEN [text |-> trim(firstLine), strategy |-> "after_heading"]
     ELSE [text |-> IF firstSentence # <<>> THEN firstSentence ELSE substring(content, 50),
           strategy |-> "beginning_of_section"]

RECURSIVE sumConf(_)
\* reduce((sum, p) => sum + (p.conf || 0.8), 0)
sumConf(props) ==
  IF props = <<>> THEN RZero
  ELSE RAdd(IF Head(props).conf # RZero THEN Head(props).conf ELSE Pct(80),
            sumConf(Tail(props)))

avgPropConfidence(props) == RDivInt(sumConf(props), Len(props))

generateRationale(delta, targetSection, sourceSection) ==
  [text |-> "Missing properties found in authoritative section",
   count |-> Len(delta.missingValues),
   propType |-> delta.propType,
   noun |-> IF Len(delta.missingValues) = 1 THEN "property" ELSE "properties",
   title |-> sourceSection.title]

\* suggestionOf proposing a replacement when the delta is confident
suggestionOfReplace(delta, ns) ==
  LET t == NodeIndex(ns, delta.targetSection)
      src == NodeIndex(ns, delta.sourceSection)
  IN IF t = 0 \/ src = 0 \/ Len(delta.missingValues) = 0 THEN <<>>
     ELSE <<[section |-> delta.targetSection,
             type |-> IF RLt(Pct(85), delta.confidence) THEN "replace" ELSE "insert",
             prop |-> delta.propType,
             anchor |-> findAnchor(ns[t], delta.propType).text,
             anchorStrategy |-> findAnchor(ns[t], delta.propType).strategy,
             values |-> delta.missingValues,
             confidence |-> RAdd(RMul(delta.confidence, Pct(60)),
                                 RMul(avgPropConfidence(delta.missingValues), Pct(40))),
             evidenceFrom |->
               [section |-> delta.sourceSection,
                spans |-> [i \in 1..Len(delta.missingValues) |-> delta.missingValues[i].span]],
             rationale |-> generateRationale(delta, ns[t], ns[src])]>>

\* the suggestion generateUpdateSuggestions pushes for one delta, if any
suggestionOf(delta, ns) ==
  LET t == NodeIndex(ns, delta.targetSection)
      src == NodeIndex(ns, delta.sourceSection)
  IN IF t = 0 \/ src = 0 \/ Len(delta.missingValues) = 0 THEN <<>>
     ELSE <<[section |-> delta.targetSection,
             type |-> "insert",
             prop |-> delta.propType,
             anchor |-> findAnchor(ns[t], delta.propType).text,
             anchorStrategy |-> findAnchor(ns[t], delta.propType).strategy,
             values |-> delta.missingValues,
             confidence |-> RAdd(RMul(delta.confidence, Pct(60)),
                                 RMul(avgPropConfidence(delta.missingValues), Pct(40))),
             evidenceFrom |->
               [section |-> delta.sourceSection,
                spans |-> [i \in 1..Len(delta.missingValues) |-> delta.missingValues[i].span]],
             rationale |-> generateRationale(delta, ns[t], ns[src])]>>

RECURSIVE generateUpdateSuggestions(_, _)
generateUpdateSuggestions(ds, ns) ==
  IF ds = <<>> THEN <<>>
  ELSE suggestionOf(Head(ds), ns) \o generateUpdateSuggestions(Tail(ds), ns)

(***************************************************************************)
(* BasicSuggestionEngine: unchanged properties and the report.             *)
(***************************************************************************)
\* the threshold of identifyUnchangedProperties
highConfidence == Pct(85)

\* isHighConfidenceEdge with weight >= 0.85
isHighConfidenceEdgeInclusive(e) ==
  /\ RLe(highConfidence, e.weight)
  /\ Len(e.evidence.matched) > 0
  /\ Len(e.evidence.missing) = 0

isHighConfidenceEdge(e) ==
  /\ RLt(highConfidence, e.weight)
  /\ Len(e.evidence.matched) > 0
  /\ Len(e.evidence.missing) = 0

RECURSIVE unchangedOfEdge(_, _, _)
\* the inner loop over the matches of one edge: the entries pushed and the
\* keys seen afterwards
unchangedOfEdge(edge, i, acc) ==
  IF i > Len(edge.evidence.matched) THEN acc
  ELSE LET key == <<edge.prop, ":", edge.evidence.matched[i].value>>
       IN IF key \in acc.seen THEN unchangedOfEdge(edge, i + 1, acc)
          ELSE unchangedOfEdge(edge, i + 1,
                 [out |-> Append(acc.out, [prop |-> edge.prop,
                                           sections |-> <<edge.from, edge.to>>,
                                           value |-> edge.evidence.matched[i].value]),
                  seen |-> acc.seen \cup {key}])

RECURSIVE unchangedFrom(_, _, _)
unchangedFrom(graphEdges, i, acc) ==
  IF i > Len(graphEdges) THEN acc.out
  ELSE IF isHighConfidenceEdge(graphEdges[i])
       THEN unchangedFrom(graphEdges, i + 1, unchangedOfEdge(graphEdges[i], 1, acc))
       ELSE unchangedFrom(graphEdges, i + 1, acc)

identifyUnchangedProperties(graphEdges) ==
  unchangedFrom(graphEdges, 1, [out |-> <<>>, seen |-> {}])

generateAuthRationale(sectionId, ns, inv) ==
  LET k == NodeIndex(ns, sectionId)
  IN IF k = 0
     THEN [text |-> "Selected as authoritative section", title |-> <<>>,
           counts |-> <<>>, typeReason |-> ""]
     ELSE IF ~InvHas(inv, sectionId)
     THEN [text |-> "selected as authoritative", title |-> ns[k].title,
           counts |-> <<>>, typeReason |-> ""]
     ELSE LET title == toLowerCase(ns[k].title)
          IN [text |-> "has highest property count",
              title |-> ns[k].title,
              counts |-> [i \in 1..3 |-> Len(InvGet(inv, sectionId)[propertyTypes[i]])],
              typeReason |->
                IF includes(title, "designated") /\ includes(title, "officer")
                THEN " (designated officer section)"
                ELSE IF includes(title, "officer") THEN " (officer section)" ELSE ""]

\* primaryAuthoritative trying Date first
primaryAuthoritativeDateFirst(auth) ==
  IF auth["Date"] # None THEN auth["Date"]
  ELSE IF auth["Name&Role"] # None THEN auth["Name&Role"]
  ELSE auth["Terms"]

\* authoritativeSections['Name&Role'] || authoritativeSections['Date'] ||
\* authoritativeSections['Terms']
primaryAuthoritative(auth) ==
  IF auth["Name&Role"] # None THEN auth["Name&Role"]
  ELSE IF auth["Date"] # None THEN auth["Date"]
  ELSE auth["Terms"]

\* the report generateSuggestions returns
buildReport(auth, ds, ns, graphEdges, inv) ==
  LET primary == primaryAuthoritative(auth)
      k == NodeIndex(ns, primary)
  IN [authoritative |->
        [section |-> IF primary # None THEN primary
                     ELSE IF Len(ns) > 0 THEN ns[1].id ELSE "unknown",
         evidenceSpan |-> IF k # 0 THEN [start |-> ns[k].startOffset, end |-> ns[k].endOffset]
                          ELSE [start |-> 0, end |-> 0],
         rationale |-> generateAuthRationale(primary, ns, inv)],
      suggestedUpdates |-> generateUpdateSuggestions(ds, ns),
      unchanged |-> identifyUnchangedProperties(graphEdges)]

(***************************************************************************)
(* Inputs: property values, sections, documents and caller-made graphs.    *)
(***************************************************************************)
NoSpan == [start |-> 0, end |-> 0]

\* "CTO: John Doe", "CFO: Mark Miller" with confidence 0, and the first one
\* again in another spelling
NameRoleValues ==
  << [role |-> <<"CTO">>, person |-> <<"John", " ", "Doe">>,
      span |-> NoSpan, conf |-> Pct(95)],
     [role |-> <<"CFO">>, person |-> <<"Mark", " ", "Miller">>,
      span |-> NoSpan, conf |-> RZero],
     [role |-> <<"Chief", " ", "Technology", " ", "Officer">>,
      person |-> <<" ", "john", " ", " ", "Doe", ".">>,
      span |-> NoSpan, conf |-> Pct(90)] >>

DateValues ==
  << [iso |-> <<"2024-01-01">>, surface |-> <<"January 1, 2024">>,
      span |-> NoSpan, conf |-> Pct(98)],
     [iso |-> <<"2025-01-01">>, surface |-> <<"January 1, 2025">>,
      span |-> NoSpan, conf |-> RZero] >>

TermValues ==
  << [name |-> <<"Fee">>, value |-> [type |-> "number", text |-> <<"100">>],
      unit |-> <<"USD">>, span |-> NoSpan, conf |-> Pct(90)],
     [name |-> <<"Fee">>, value |-> [type |-> "number", text |-> <<"100">>],
      unit |-> Undefined, span |-> NoSpan, conf |-> RZero] >>

ValuesOf(kind) ==
  CASE kind = "Name&Role" -> NameRoleValues
    [] kind = "Date" -> DateValues
    [] kind = "Terms" -> TermValues

\* the first n values of a kind, cyclically
PrefixList(kind, n) ==
  [j \in 1..n |-> ValuesOf(kind)[((j - 1) % Len(ValuesOf(kind))) + 1]]

\* every property list of a kind within the bound
ListsOf(kind) == SeqsUpTo(Range(ValuesOf(kind)), MaxProps)

SectionIds == <<"sec1", "sec2", "sec3">>

\* title, kind and content of the sections used
Profile(name) ==
  CASE name = "intro" ->
         [title |-> <<"Introduction">>, kind |-> Undefined,
          content |-> <<"CTO", ":", " ", "John", " ", "Doe">>]
    [] name = "designated" ->
         [title |-> <<"Designated", " ", "Officers">>, kind |-> <<"Officers">>,
          content |-> <<"1", ".", " ", "CTO", "\n", "-", " ", "CFO">>]
    [] name = "responsible" ->
         [title |-> <<"Responsible", " ", "Officers">>, kind |-> Undefined,
          content |-> <<"-", " ", "CTO", "\n", "-", " ", "CFO">>]
    [] name = "signature" ->
         [title |-> <<"Signature", " ", "Page">>, kind |-> Undefined,
          content |-> <<>>]
    [] name = "payment" ->
         [title |-> <<"Payment", " ", "Terms">>, kind |-> <<"Terms">>,
          content |-> <<"\n", "Fee", " ", "100", ".", " ", "USD">>]
    [] name = "management" ->
         [title |-> <<"Management">>, kind |-> <<"Officers">>,
          content |-> <<"Officers", "\n", "CTO">>]

ProfileNames == {"intro", "designated", "responsible", "signature", "payment", "management"}

Section(i, name) ==
  [id |-> SectionIds[i],
   title |-> Profile(name).title,
   kind |-> Profile(name).kind,
   content |-> Profile(name).content,
   startOffset |-> 100 * (i - 1),
   endOffset |-> 100 * i]

\* the properties of section i: each gets the span of its place
WithSpans(list, i) ==
  [j \in 1..Len(list) |->
     [list[j] EXCEPT !.span = [start |-> 100 * (i - 1) + 10 * (j - 1),
                               end |-> 100 * (i - 1) + 10 * j]]]

NoProps == [k \in Kinds |-> <<>>]

\* a document: names[i] is the profile of section i, lists[i] its property
\* lists by kind, and present the sections that have an inventory entry
Doc(names, lists, present) ==
  [nodes |-> [i \in 1..Len(names) |-> Section(i, names[i])],
   inventory |->
     LET idx == AtIndices([i \in 1..Len(names) |-> i], present)
     IN [k \in 1..Len(idx) |->
           [id |-> SectionIds[idx[k]],
            props |-> [kind \in Kinds |-> WithSpans(lists[idx[k]][kind], idx[k])]]]]

\* only the list of one kind is filled
Only(kind, list) == [k \in Kinds |-> IF k = kind THEN list ELSE <<>>]

\* the weights of caller-made edges: falsy, at the threshold, above it
Weights == {RZero, Pct(85), Pct(95)}

\* inventory.get(id)[kind], an absent entry read as no properties
PropsOrNone(d, id, kind) ==
  IF InvHas(d.inventory, id) THEN InvGet(d.inventory, id)[kind] ELSE <<>>

\* a caller-made edge from section i to section j: the evidence is what the
\* comparator finds, the weight is the caller's
CallerEdge(d, i, j, kind, w) ==
  LET pa == PropsOrNone(d, d.nodes[i].id, kind)
      pb == PropsOrNone(d, d.nodes[j].id, kind)
  IN [from |-> d.nodes[i].id, to |-> d.nodes[j].id, prop |-> kind, weight |-> w,
      evidence |-> edgeEvidence(kind, compareLists(kind, pa, pb), d.nodes[i], d.nodes[j])]

CallerEdges(d, kind, W) ==
  {CallerEdge(d, i, j, kind, w) :
     i \in 1..Len(d.nodes), j \in 1..Len(d.nodes), w \in W} \
  {CallerEdge(d, i, i, kind, w) : i \in 1..Len(d.nodes), w \in W}

\* the property lists of a section by length: PrefixList per kind, at most
\* one date and one term
CountsByKind ==
  {[k \in Kinds |-> PrefixList(k, c[k])] :
     c \in {f \in [Kinds -> 0..MaxProps] : f["Date"] <= 1 /\ f["Terms"] <= 1}}

EmptyDoc == Doc(<<>>, <<>>, {})

(***************************************************************************)
(* The state machine.                                                      *)
(***************************************************************************)
NoReport ==
  [authoritative |-> [section |-> None, evidenceSpan |-> NoSpan,
                      rationale |-> generateAuthRationale(None, <<>>, <<>>)],
   suggestedUpdates |-> <<>>,
   unchanged |-> <<>>]

\* the state before any call: a document d and the graph g of its caller
Start(d, g) ==
  /\ nodes = d.nodes
  /\ inventory = d.inventory
  /\ edges = g
  /\ pc = "input"
  /\ built = FALSE
  /\ clusters = [k \in Kinds |-> <<>>]
  /\ authoritativeSections = [k \in Kinds |-> None]
  /\ deltas = <<>>
  /\ report = NoReport

\* two sections, every pair of lists of one kind, at most one edge
InitValues ==
  \E kind \in Kinds :
    \E la \in ListsOf(kind), lb \in ListsOf(kind) :
      LET d == Doc(<<"designated", "responsible">>, <<Only(kind, la), Only(kind, lb)>>, {1, 2})
      IN \E g \in SeqsUpTo(CallerEdges(d, kind, Weights), 1) : Start(d, g)

\* two sections, lists by length, an inventory entry may be absent, every
\* edge list within the bound
InitEdges ==
  \E kind \in Kinds :
    \E n1 \in 0..MaxProps, n2 \in 0..MaxProps, present \in {{1, 2}, {1}, {2}} :
      LET d == Doc(<<"designated", "responsible">>,
                   <<Only(kind, PrefixList(kind, n1)), Only(kind, PrefixList(kind, n2))>>,
                   present)
      IN \E g \in SeqsUpTo(CallerEdges(d, kind, Weights), MaxEdges) : Start(d, g)

\* three sections, lists by length, every edge list within the bound
InitShape ==
  \E kind \in Kinds :
    \E n1 \in 0..MaxProps, n2 \in 0..MaxProps, n3 \in 0..MaxProps :
      LET d == Doc(<<"intro", "intro", "intro">>,
                   <<Only(kind, PrefixList(kind, n1)), Only(kind, PrefixList(kind, n2)),
                     Only(kind, PrefixList(kind, n3))>>, {1, 2, 3})
      IN \E g \in SeqsUpTo(CallerEdges(d, kind, {Pct(60)}), MaxEdges) : Start(d, g)

\* two sections of every title, properties of several kinds, no edge
InitPolicy ==
  \E pa \in ProfileNames, pb \in ProfileNames :
    \E la \in CountsByKind, lb \in CountsByKind :
      Start(Doc(<<pa, pb>>, <<la, lb>>, {1, 2}), <<>>)

\* no section at all
InitEmpty == Start(EmptyDoc, <<>>)

Init == InitValues \/ InitEdges \/ InitShape \/ InitPolicy \/ InitEmpty

\* LegalDocEngine.process, step 3: the graph is built from the sections and
\* the inventory
BuildGraph ==
  /\ pc = "input"
  /\ edges' = buildGraph(nodes, inventory)
  /\ built' = TRUE
  /\ pc' = "graph"
  /\ UNCHANGED <<nodes, inventory, clusters, authoritativeSections, deltas, report>>

\* GenerateSuggestions leaving every property list of the inventory in
\* reverse order
GenerateSuggestionsReversing ==
  /\ pc \in {"input", "graph"}
  /\ LET cl == findAuthorityClusters(edges, inventory)
         auth == selectPrimaryAuthoritiesFromClusters(cl, nodes, inventory)
         ds == computeDeltasFromClusters(cl, edges, inventory)
     IN /\ clusters' = cl
        /\ authoritativeSections' = auth
        /\ deltas' = ds
        /\ report' = buildReport(auth, ds, nodes, edges, inventory)
  /\ inventory' =
       [i \in 1..Len(inventory) |->
          [inventory[i] EXCEPT !.props =
             [k \in Kinds |->
                [j \in 1..Len(inventory[i].props[k]) |->
                   inventory[i].props[k][Len(inventory[i].props[k]) + 1 - j]]]]]
  /\ pc' = "done"
  /\ UNCHANGED <<nodes, edges, built>>

\* generateSuggestions(graph, inventory), on the graph just built or on the
\* graph the caller made
GenerateSuggestions ==
  /\ pc \in {"input", "graph"}
  /\ LET cl == findAuthorityClusters(edges, inventory)
         auth == selectPrimaryAuthoritiesFromClusters(cl, nodes, inventory)
         ds == computeDeltasFromClusters(cl, edges, inventory)
     IN /\ clusters' = cl
        /\ authoritativeSections' = auth
        /\ deltas' = ds
        /\ report' = buildReport(auth, ds, nodes, edges, inventory)
  /\ pc' = "done"
  /\ UNCHANGED <<nodes, inventory, edges, built>>

Next == BuildGraph \/ GenerateSuggestions

Spec == Init /\ [][Next]_vars

(***************************************************************************)
(* Properties of a finished run.                                           *)
(***************************************************************************)
Done == pc = "done"

NodeIds == {nodes[i].id : i \in 1..Len(nodes)}

\* the properties of a kind a section holds, none without an inventory entry
PropsOf(id, K) == IF InvHas(inventory, id) THEN InvGet(inventory, id)[K] ELSE <<>>
CountOf(id, K) == Len(PropsOf(id, K))

\* the deltas for one target and kind, in order
DeltasFor(target, K) ==
  AtIndices(deltas, {i \in 1..Len(deltas) :
                       deltas[i].targetSection = target /\ deltas[i].propType = K})

\* the suggested updates of one kind, in order
UpdatesOf(K) ==
  AtIndices(report.suggestedUpdates,
            {i \in 1..Len(report.suggestedUpdates) : report.suggestedUpdates[i].prop = K})

\* some edge of kind K joins a and b
Linked(a, b, K) ==
  \E e \in Range(edges) :
    e.prop = K /\ ((e.from = a /\ e.to = b) \/ (e.from = b /\ e.to = a))

\* the properties of R that no property of M matches canonically
CanonicalDifference(R, M, K) ==
  AtIndices(PropsOf(R, K),
    {i \in 1..CountOf(R, K) :
       ~\E j \in 1..CountOf(M, K) : canonicalMatch(K, PropsOf(R, K)[i], PropsOf(M, K)[j])})

\* C1: for every cluster with reference R and every other member M, the
\* delta for (M, kind) carries exactly the properties of R that have no
\* canonical match in M, and there is no delta when there are none.
C1_DeltaIsCanonicalDifference ==
  Done =>
    \A K \in Kinds : \A c \in 1..Len(clusters[K]) :
      LET C == clusters[K][c]
          R == referenceSection(C, K, inventory)
      IN \A m \in 1..Len(C) :
           C[m] # R =>
             LET expected == CanonicalDifference(R, C[m], K)
                 ds == DeltasFor(C[m], K)
             IN IF expected = <<>> THEN ds = <<>>
                ELSE /\ Len(ds) = 1
                     /\ ds[1].sourceSection = R
                     /\ ds[1].missingValues = expected

\* a list with its spans forgotten: the field values only
StripSpans(list) == [i \in 1..Len(list) |-> [list[i] EXCEPT !.span = NoSpan]]
RemoveAt(list, i) == SubSeq(list, 1, i - 1) \o SubSeq(list, i + 1, Len(list))

\* M's list is R's list without its i-th property, both hold a property of
\* the kind and an edge of the kind joins them
OneRemoved(r, m, K, i) ==
  /\ r # m
  /\ Linked(r, m, K)
  /\ CountOf(m, K) > 0
  /\ i \in 1..CountOf(r, K)
  /\ StripSpans(PropsOf(m, K)) = StripSpans(RemoveAt(PropsOf(r, K), i))

\* the report has exactly one update of the kind: insert p into m from r
OneInsert(r, m, K, p) ==
  /\ Len(UpdatesOf(K)) = 1
  /\ UpdatesOf(K)[1].section = m
  /\ UpdatesOf(K)[1].evidenceFrom.section = r
  /\ UpdatesOf(K)[1].type = "insert"
  /\ UpdatesOf(K)[1].values = <<p>>

OnlyPairUnmatched(r, m, K, i) ==
  /\ \A e \in Range(edges) : e.prop = K => {e.from, e.to} = {r, m}
  /\ ~\E j \in 1..CountOf(m, K) : canonicalMatch(K, PropsOf(r, K)[i], PropsOf(m, K)[j])

IsFallbackDelta(d) == CountOf(d.targetSection, d.propType) = 0
FallbackDeltas == AtIndices(deltas, {i \in 1..Len(deltas) : IsFallbackDelta(deltas[i])})

\* an edge with nothing of its kind at z and something at s
OneSided(e, z, s) ==
  /\ {e.from, e.to} = {z, s}
  /\ CountOf(z, e.prop) = 0
  /\ CountOf(s, e.prop) > 0

\* the delta the fallback pass owes to edge e with empty end z and source s
DeltaOwed(e, z, s) ==
  [targetSection |-> z, propType |-> e.prop, missingValues |-> PropsOf(s, e.prop),
   sourceSection |-> s, confidence |-> e.weight]

\* the first edge, in graph order, with its from, to and kind
FirstOfItsKey(i) ==
  ~\E j \in 1..(i - 1) :
     /\ edges[j].from = edges[i].from
     /\ edges[j].to = edges[i].to
     /\ edges[j].prop = edges[i].prop

\* C3: every edge, taken once by from, to and kind, with exactly one end
\* holding nothing of its kind has a delta that targets that end, is
\* sourced from the other end, carries all the source's properties of the
\* kind and has the edge weight as confidence; every fallback delta is the
\* delta of such an edge, so an edge with both ends empty or both ends
\* holding properties yields none.
C3_EveryOneSidedEdgeHasDelta ==
  Done =>
    /\ \A k \in 1..Len(edges) : \A z \in NodeIds, s \in NodeIds :
         (FirstOfItsKey(k) /\ OneSided(edges[k], z, s))
           => \E i \in 1..Len(deltas) : deltas[i] = DeltaOwed(edges[k], z, s)
    /\ \A i \in 1..Len(deltas) :
         IsFallbackDelta(deltas[i]) =>
           \E e \in Range(edges) :
             /\ OneSided(e, deltas[i].targetSection, deltas[i].sourceSection)
             /\ deltas[i] = DeltaOwed(e, deltas[i].targetSection, deltas[i].sourceSection)

\* C4: no two deltas, and no two suggested updates, have the same target
\* section, source section and kind.
C4_NoDuplicateDeltas ==
  Done =>
    /\ \A i \in 1..Len(deltas), j \in 1..Len(deltas) :
         i # j =>
           <<deltas[i].targetSection, deltas[i].sourceSection, deltas[i].propType>>
             # <<deltas[j].targetSection, deltas[j].sourceSection, deltas[j].propType>>
    /\ \A i \in 1..Len(report.suggestedUpdates), j \in 1..Len(report.suggestedUpdates) :
         i # j =>
           LET u == report.suggestedUpdates[i]
               v == report.suggestedUpdates[j]
           IN <<u.section, u.evidenceFrom.section, u.prop>>
                # <<v.section, v.evidenceFrom.section, v.prop>>

\* the sections holding at least one property of the kind
Nonzero(K) == {id \in {inventory[i].id : i \in 1..Len(inventory)} : CountOf(id, K) > 0}

RECURSIVE ReachFrom(_, _)
\* the sections of Nonzero(K) joined to one of S by a path of edges of the
\* kind through sections of Nonzero(K)
ReachFrom(S, K) ==
  LET next == S \cup {b \in Nonzero(K) : \E a \in S : Linked(a, b, K)}
  IN IF next = S THEN S ELSE ReachFrom(next, K)

\* C5: for each kind the clusters are the connected components of the
\* edges of the kind restricted to the sections holding a property of the
\* kind: no section twice in a cluster, clusters pairwise disjoint, their
\* union is the set of those sections, and each cluster is what a path
\* through such sections reaches from any of its members.
C5_ClustersAreComponents ==
  Done =>
    \A K \in Kinds :
      LET cs == clusters[K]
      IN /\ \A c \in 1..Len(cs) :
              /\ cs[c] # <<>>
              /\ \A i \in 1..Len(cs[c]), j \in 1..Len(cs[c]) : i # j => cs[c][i] # cs[c][j]
              /\ \A a \in Range(cs[c]) : Range(cs[c]) = ReachFrom({a}, K)
         /\ \A c \in 1..Len(cs), d \in 1..Len(cs) :
              c # d => Range(cs[c]) \cap Range(cs[d]) = {}
         /\ UNION {Range(cs[c]) : c \in 1..Len(cs)} = Nonzero(K)

\* a finished run with a cluster of two sections, found along an edge
\* stored from the later to the earlier one, and a section holding nothing
\* of the kind joined to one of them
C5_Witness ==
  /\ Done
  /\ \E K \in Kinds : \E c \in 1..Len(clusters[K]) :
       /\ Len(clusters[K][c]) = 2
       /\ \E e \in Range(edges) :
            e.prop = K /\ e.from = clusters[K][c][2] /\ e.to = clusters[K][c][1]
       /\ \E z \in NodeIds :
            CountOf(z, K) = 0 /\ Linked(z, clusters[K][c][1], K)

\* the cluster of the kind a section is in
ClusterOf(id, K) ==
  clusters[K][CHOOSE c \in 1..Len(clusters[K]) : id \in Range(clusters[K][c])]

\* C6: the reference of every cluster is one of its members and holds at
\* least as many properties of the kind as every member; every delta of a
\* cluster is sourced from a member of the target's cluster that holds at
\* least as many properties as every member.
C6_ReferenceIsLargestMember ==
  Done =>
    /\ \A K \in Kinds : \A c \in 1..Len(clusters[K]) :
         LET R == referenceSection(clusters[K][c], K, inventory)
         IN /\ R \in Range(clusters[K][c])
            /\ \A m \in Range(clusters[K][c]) : CountOf(R, K) >= CountOf(m, K)
    /\ \A i \in 1..Len(deltas) :
         ~IsFallbackDelta(deltas[i]) =>
           LET K == deltas[i].propType
               C == ClusterOf(deltas[i].targetSection, K)
           IN /\ deltas[i].sourceSection \in Range(C)
              /\ \A m \in Range(C) : CountOf(deltas[i].sourceSection, K) >= CountOf(m, K)

\* a finished run with a cluster delta whose source is not the first
\* member of its cluster and holds more properties than the first member
C6_Witness ==
  /\ Done
  /\ \E i \in 1..Len(deltas) :
       /\ ~IsFallbackDelta(deltas[i])
       /\ LET K == deltas[i].propType
              C == ClusterOf(deltas[i].targetSection, K)
          IN /\ C[1] # deltas[i].sourceSection
             /\ CountOf(deltas[i].sourceSection, K) > CountOf(C[1], K)

\* propertyCount * 0.7 + policyScore * 0.3 of a section of the graph
ScoreOf(id, K) ==
  authorityScore(CountOf(id, K), getSectionPolicyScore(nodes[NodeIndex(nodes, id)], K))

\* the members of all clusters of the kind, cluster after cluster
MembersOf(K) == Flatten(clusters[K])

\* the members whose score no member exceeds
BestOf(K) ==
  {a \in Range(MembersOf(K)) : \A b \in Range(MembersOf(K)) : RLe(ScoreOf(b, K), ScoreOf(a, K))}

\* the first element of a sequence of section ids that is in S
FirstOf(seq, S) == seq[CHOOSE i \in 1..Len(seq) : seq[i] \in S /\ \A j \in 1..(i - 1) : seq[j] \notin S]

InputOrder == [i \in 1..Len(nodes) |-> nodes[i].id]

\* C7 as stated: the authoritative section of a kind has the highest score
\* of all cluster members, and of several with the highest score it is the
\* first in the input section order.
C7_AuthorityFirstInInputOrder ==
  Done =>
    \A K \in Kinds :
      MembersOf(K) # <<>> => authoritativeSections[K] = FirstOf(InputOrder, BestOf(K))

\* C7: the authoritative section of a kind has the highest score of all
\* cluster members, and of several with the highest score it is the first
\* met when the clusters are walked in the order they were found, each in
\* the order its members were reached; a kind without cluster has none.
C7_AuthorityFirstInClusterOrder ==
  Done =>
    \A K \in Kinds :
      IF MembersOf(K) = <<>> THEN authoritativeSections[K] = None
      ELSE authoritativeSections[K] = FirstOf(MembersOf(K), BestOf(K))

\* a finished run where two sections share the highest score and the
\* authoritative one is not the first of them in the input order
C7_Witness ==
  /\ Done
  /\ \E K \in Kinds :
       /\ Cardinality(BestOf(K)) >= 2
       /\ authoritativeSections[K] = FirstOf(MembersOf(K), BestOf(K))
       /\ authoritativeSections[K] # FirstOf(InputOrder, BestOf(K))

\* C8: authoritative.section is the authoritative section of Name&Role if
\* there is one, else that of Date, else that of Terms, else the id of the
\* first section, else 'unknown'.
C8_AuthoritativeSectionByKindOrder ==
  Done =>
    report.authoritative.section =
      IF authoritativeSections["Name&Role"] # None THEN authoritativeSections["Name&Role"]
      ELSE IF authoritativeSections["Date"] # None THEN authoritativeSections["Date"]
      ELSE IF authoritativeSections["Terms"] # None THEN authoritativeSections["Terms"]
      ELSE IF nodes # <<>> THEN nodes[1].id
      ELSE "unknown"

\* a finished run with no Name&Role authority and different authorities
\* for Date and Terms: the report names the one of Date
C8_Witness ==
  /\ Done
  /\ authoritativeSections["Name&Role"] = None
  /\ authoritativeSections["Date"] # None
  /\ authoritativeSections["Terms"] # None
  /\ authoritativeSections["Date"] # authoritativeSections["Terms"]
  /\ report.authoritative.section = authoritativeSections["Date"]

\* the document of the policy test: 'Introduction' without kind holding
\* two Name&Role properties, 'Designated Officers' of kind 'Officers'
\* holding one, nothing else, no edge
PolicyTestInput ==
  /\ nodes = <<Section(1, "intro"), Section(2, "designated")>>
  /\ edges = <<>>
  /\ \A K \in Kinds :
       /\ CountOf("sec1", K) = (IF K = "Name&Role" THEN 2 ELSE 0)
       /\ CountOf("sec2", K) = (IF K = "Name&Role" THEN 1 ELSE 0)

\* C9: on the document of the policy test the officer section, with one
\* property, is the authoritative section of the report.
C9_OfficerSectionWins ==
  (Done /\ PolicyTestInput) => report.authoritative.section = "sec2"

RECURSIVE ConfSum(_)
ConfSum(props) == IF props = <<>> THEN RZero ELSE RAdd(Head(props).conf, ConfSum(Tail(props)))

\* the arithmetic mean of the conf of a non-empty list of properties
ConfMean(props) == RDivInt(ConfSum(props), Len(props))

\* C10: every suggested update has confidence delta.confidence * 0.6 +
\* mean(conf of its values) * 0.4, whatever the conf, 0 included.
C10_ConfidenceIsWeightedMean ==
  Done =>
    /\ Len(report.suggestedUpdates) = Len(deltas)
    /\ \A i \in 1..Len(deltas) :
         /\ report.suggestedUpdates[i].values = deltas[i].missingValues
         /\ report.suggestedUpdates[i].confidence =
              RAdd(RMul(deltas[i].confidence, Pct(60)),
                   RMul(ConfMean(deltas[i].missingValues), Pct(40)))

\* the edges of the kind between two sections, in graph order
EdgesBetween(a, b, K) ==
  AtIndices(edges, {i \in 1..Len(edges) :
                      /\ edges[i].prop = K
                      /\ \/ (edges[i].from = a /\ edges[i].to = b)
                         \/ (edges[i].from = b /\ edges[i].to = a)})

\* C11: a cluster delta from reference R to member M has as confidence the
\* weight of the edge of its kind between R and M when the graph has one
\* (the first one in graph order), whatever the weight, 0 included, and
\* 0.75 only when the graph has none.
C11_ClusterDeltaConfidenceIsEdgeWeight ==
  Done =>
    \A i \in 1..Len(deltas) :
      ~IsFallbackDelta(deltas[i]) =>
        LET between == EdgesBetween(deltas[i].sourceSection, deltas[i].targetSection,
                                    deltas[i].propType)
        IN deltas[i].confidence = (IF between # <<>> THEN between[1].weight ELSE Pct(75))

\* the edges with weight above 0.85 and nothing missing
FullMatchEdges ==
  {i \in 1..Len(edges) : RLt(Pct(85), edges[i].weight) /\ edges[i].evidence.missing = <<>>}

\* the k-th match of edge i is the first, in graph order, of its kind and
\* value on such an edge
FirstMatch(i, k) ==
  /\ i \in FullMatchEdges
  /\ k \in 1..Len(edges[i].evidence.matched)
  /\ \A j \in FullMatchEdges : \A l \in 1..Len(edges[j].evidence.matched) :
       (edges[j].prop = edges[i].prop
          /\ edges[j].evidence.matched[l].value = edges[i].evidence.matched[k].value)
         => (j > i \/ (j = i /\ l >= k))

UnchangedEntry(i, k) ==
  [prop |-> edges[i].prop, sections |-> <<edges[i].from, edges[i].to>>,
   value |-> edges[i].evidence.matched[k].value]

\* C12: the unchanged list holds, for each kind and matched value found on
\* an edge with weight above 0.85 and nothing missing, one entry with the
\* kind, the value and [from, to] of the first such edge in graph order,
\* and it holds nothing else.
C12_UnchangedAreFirstFullMatches ==
  Done =>
    /\ \A i \in 1..Len(edges) : \A k \in 1..Len(edges[i].evidence.matched) :
         FirstMatch(i, k) => UnchangedEntry(i, k) \in Range(report.unchanged)
    /\ \A u \in Range(report.unchanged) :
         \E i \in 1..Len(edges) : \E k \in 1..Len(edges[i].evidence.matched) :
           FirstMatch(i, k) /\ u = UnchangedEntry(i, k)
    /\ \A a \in 1..Len(report.unchanged), b \in 1..Len(report.unchanged) :
         a # b => <<report.unchanged[a].prop, report.unchanged[a].value>>
                    # <<report.unchanged[b].prop, report.unchanged[b].value>>

\* a finished run with the same value matched on two edges with weight
\* above 0.85 stored in opposite directions: the first unchanged entry has
\* the sections of the first of them
C12_Witness ==
  /\ Done
  /\ Len(report.unchanged) >= 1
  /\ \E i \in FullMatchEdges, j \in FullMatchEdges :
       /\ i < j
       /\ edges[i].from = edges[j].to
       /\ edges[i].evidence.matched # <<>>
       /\ edges[j].evidence.matched # <<>>
       /\ edges[i].prop = edges[j].prop
       /\ edges[i].evidence.matched[1].value = edges[j].evidence.matched[1].value
       /\ report.unchanged[1].sections = <<edges[i].from, edges[i].to>>

\* C13: in the graph buildGraph returns, every pair of sections has, for
\* every kind, exactly one edge when at least one of the two holds a
\* property of the kind, matched or not, and no edge otherwise.
C13_OneEdgePerPairAndKind ==
  built =>
    \A i \in 1..Len(nodes), j \in 1..Len(nodes) : \A K \in Kinds :
      i < j =>
        Len(EdgesBetween(nodes[i].id, nodes[j].id, K))
          = (IF CountOf(nodes[i].id, K) > 0 \/ CountOf(nodes[j].id, K) > 0 THEN 1 ELSE 0)

\* the missing entries of an edge flagged as missing in a section
MissingIn(e, id) ==
  AtIndices(e.evidence.missing,
            {k \in 1..Len(e.evidence.missing) : e.evidence.missing[k].inSection = id})

\* C14: on every edge of a built graph, from A to B, the matched entries
\* and the entries missing in B are as many as A's properties of the kind,
\* and the matched entries and the entries missing in A are as many as B's.
C14_EvidenceAccountsForEachSide ==
  built =>
    \A e \in Range(edges) :
      /\ Len(e.evidence.matched) + Len(MissingIn(e, e.to)) = CountOf(e.from, e.prop)
      /\ Len(e.evidence.matched) + Len(MissingIn(e, e.from)) = CountOf(e.to, e.prop)
      /\ Len(e.evidence.missing) = Len(MissingIn(e, e.to)) + Len(MissingIn(e, e.from))

\* a built graph with an edge that has a match, an entry missing in B
\* only and none missing in A: A holds two properties and B one
C14_Witness ==
  /\ built
  /\ \E e \in Range(edges) :
       /\ Len(e.evidence.matched) = 1
       /\ Len(MissingIn(e, e.to)) = 1
       /\ Len(MissingIn(e, e.from)) = 0
       /\ CountOf(e.from, e.prop) = 2
       /\ CountOf(e.to, e.prop) = 1

\* C15: every edge of a built graph has a weight between 0 and 1, both
\* included.
C15_BuiltWeightInUnitInterval ==
  built => \A e \in Range(edges) : RLe(RZero, e.weight) /\ RLe(e.weight, ROne)

\* a built graph with an edge of the highest weight, 0.97: two officer
\* sections with the same Name&Role properties
C15_Witness ==
  /\ built
  /\ \E e \in Range(edges) :
       e.prop = "Name&Role" /\ e.weight = Pct(97) /\ e.evidence.missing = <<>>

\* C16: a section without an inventory entry is handled as one holding
\* nothing: the built graph has an edge between it and every section
\* holding a property of a kind, and the finished run on that graph has the
\* fallback delta that targets it with all those properties.
C16_MissingInventoryAsEmpty ==
  built =>
    \A a \in NodeIds, b \in NodeIds : \A K \in Kinds :
      (~InvHas(inventory, a) /\ CountOf(b, K) > 0) =>
        /\ Linked(a, b, K)
        /\ Done =>
             \E i \in 1..Len(deltas) :
               /\ deltas[i].targetSection = a
               /\ deltas[i].sourceSection = b
               /\ deltas[i].propType = K
               /\ deltas[i].missingValues = PropsOf(b, K)

\* C17: every suggested update of every report has type 'insert' and at
\* least one value.
C17_UpdatesAreNonEmptyInserts ==
  \A u \in Range(report.suggestedUpdates) : u.type = "insert" /\ u.values # <<>>

\* a finished run whose report has an update from the cluster pass and an
\* update from the fallback pass
C17_Witness ==
  /\ Done
  /\ \E u \in Range(report.suggestedUpdates), v \in Range(report.suggestedUpdates) :
       CountOf(u.section, u.prop) > 0 /\ CountOf(v.section, v.prop) = 0

\* C19: no step changes a section or a property list of the inventory,
\* and the step of generateSuggestions changes no edge of its graph.
C19_InputsUnchanged ==
  [][/\ nodes' = nodes
     /\ inventory' = inventory
     /\ (pc' = "done" => edges' = edges)]_vars

\* a finished run of both calls on a document with a section holding two
\* properties of a kind, with an update in the report
C19_Witness ==
  /\ Done
  /\ built
  /\ edges # <<>>
  /\ report.suggestedUpdates # <<>>
  /\ \E id \in NodeIds, K \in Kinds : CountOf(id, K) = MaxProps

\* the place in a property list of the property with a span
IndexOfSpan(list, span) == CHOOSE i \in 1..Len(list) : list[i].span = span

\* the pairs (index in A, index in B) an edge reports as matched, in order
PairsOf(e) ==
  [k \in 1..Len(e.evidence.matched) |->
     [a |-> IndexOfSpan(PropsOf(e.from, e.prop), e.evidence.matched[k].spans[1]),
      b |-> IndexOfSpan(PropsOf(e.to, e.prop), e.evidence.matched[k].spans[2])]]

\* the values of the properties of a list at the places in I, in order
ValuesAt(K, list, I) ==
  LET kept == AtIndices(list, I)
  IN [k \in 1..Len(kept) |-> evidenceValue(K, kept[k])]

\* the evidence of edge e is what greedy first-fit gives on A = the
\* properties of e.from and B = those of e.to
GreedyFirstFit(e) ==
  LET K == e.prop
      A == PropsOf(e.from, K)
      B == PropsOf(e.to, K)
      pairs == PairsOf(e)
      usedBefore(k) == {pairs[l].b : l \in 1..(k - 1)}
      matchedA == {pairs[k].a : k \in 1..Len(pairs)}
      matchedB == {pairs[k].b : k \in 1..Len(pairs)}
  IN /\ \A k \in 1..Len(pairs) :
          /\ e.evidence.matched[k].spans = <<A[pairs[k].a].span, B[pairs[k].b].span>>
          /\ e.evidence.matched[k].value = evidenceValue(K, A[pairs[k].a])
          /\ canonicalMatch(K, A[pairs[k].a], B[pairs[k].b])
          /\ pairs[k].b \notin usedBefore(k)
          /\ \A j \in 1..(pairs[k].b - 1) :
               canonicalMatch(K, A[pairs[k].a], B[j]) => j \in usedBefore(k)
          /\ \A l \in 1..(k - 1) : pairs[l].a < pairs[k].a
     /\ \A i \in (1..Len(A)) \ matchedA : \A j \in 1..Len(B) :
          canonicalMatch(K, A[i], B[j]) =>
            \E k \in 1..Len(pairs) : pairs[k].b = j /\ pairs[k].a < i
     /\ [k \in 1..Len(MissingIn(e, e.to)) |-> MissingIn(e, e.to)[k].value]
          = ValuesAt(K, A, (1..Len(A)) \ matchedA)
     /\ [k \in 1..Len(MissingIn(e, e.from)) |-> MissingIn(e, e.from)[k].value]
          = ValuesAt(K, B, (1..Len(B)) \ matchedB)

\* C20: on every edge of a built graph the comparison is greedy first-fit:
\* the matches pair properties of A, in list order, each with the lowest
\* property of B that is canonically equal and not paired before; no
\* property of B is paired twice; a property of A is unpaired only when
\* every canonically equal property of B was paired before it, and it is
\* reported missing in B; the unpaired properties of B are reported
\* missing in A.
C20_ComparatorIsGreedyFirstFit ==
  built => \A e \in Range(edges) : GreedyFirstFit(e)

\* a built graph with an edge on which the two properties of A match the
\* same property of B canonically: the first is paired, the second is
\* reported missing in B
C20_Witness ==
  /\ built
  /\ \E e \in Range(edges) :
       LET A == PropsOf(e.from, e.prop)
           B == PropsOf(e.to, e.prop)
       IN /\ Len(A) = 2
          /\ Len(B) = 1
          /\ canonicalMatch(e.prop, A[1], B[1])
          /\ canonicalMatch(e.prop, A[2], B[1])
          /\ A[1] # [B[1] EXCEPT !.span = A[1].span]
          /\ Len(e.evidence.matched) = 1
          /\ Len(MissingIn(e, e.to)) = 1

\* how many properties of a list are canonically equal to p
Occurrences(K, list, p) ==
  Cardinality({i \in 1..Len(list) : canonicalMatch(K, list[i], p)})

\* the places of A = the properties of e.from, and of B = those of e.to,
\* that no match of the edge pairs
UnpairedA(e) ==
  (1..CountOf(e.from, e.prop)) \ {PairsOf(e)[k].a : k \in 1..Len(PairsOf(e))}
UnpairedB(e) ==
  (1..CountOf(e.to, e.prop)) \ {PairsOf(e)[k].b : k \in 1..Len(PairsOf(e))}

\* the entries of edge e missing in a section are the properties of the
\* other section at the places in I
MissingAre(e, id, list, I) ==
  [k \in 1..Len(MissingIn(e, id)) |-> MissingIn(e, id)[k].value] = ValuesAt(e.prop, list, I)

\* C21 as stated: on every edge of a built graph no matched property is
\* canonically equal to a property reported missing on the same side.
C21_NoValueMatchedAndMissing ==
  built =>
    \A e \in Range(edges) :
      LET K == e.prop
          A == PropsOf(e.from, K)
          B == PropsOf(e.to, K)
      IN /\ MissingAre(e, e.to, A, UnpairedA(e))
         /\ MissingAre(e, e.from, B, UnpairedB(e))
         /\ \A k \in 1..Len(PairsOf(e)) :
              /\ \A i \in UnpairedA(e) : ~canonicalMatch(K, A[PairsOf(e)[k].a], A[i])
              /\ \A j \in UnpairedB(e) : ~canonicalMatch(K, B[PairsOf(e)[k].b], B[j])

\* C21: on every edge of a built graph a matched property is canonically
\* equal to a property reported missing in a section only when the other
\* section lists that canonical value more often than the section does; so
\* nothing is both matched and missing when no section lists a canonical
\* value more often than the other.
C21_MatchedAndMissingOnlyBySurplus ==
  built =>
    \A e \in Range(edges) :
      LET K == e.prop
          A == PropsOf(e.from, K)
          B == PropsOf(e.to, K)
      IN /\ MissingAre(e, e.to, A, UnpairedA(e))
         /\ MissingAre(e, e.from, B, UnpairedB(e))
         /\ \A k \in 1..Len(PairsOf(e)) :
              /\ \A i \in UnpairedA(e) :
                   canonicalMatch(K, A[PairsOf(e)[k].a], A[i])
                     => Occurrences(K, A, A[i]) > Occurrences(K, B, A[i])
              /\ \A j \in UnpairedB(e) :
                   canonicalMatch(K, B[PairsOf(e)[k].b], B[j])
                     => Occurrences(K, B, B[j]) > Occurrences(K, A, B[j])

\* a built graph with an edge whose side A lists one canonical value twice,
\* in two spellings, and whose side B lists it once next to another value:
\* the value is matched and is reported missing in B
C21_Witness ==
  /\ built
  /\ \E e \in Range(edges) :
       LET K == e.prop
           A == PropsOf(e.from, K)
           B == PropsOf(e.to, K)
       IN /\ Len(A) = 2
          /\ Len(B) = 2
          /\ Occurrences(K, A, A[1]) = 2
          /\ Occurrences(K, B, A[1]) = 1
          /\ PairsOf(e) # <<>>
          /\ UnpairedA(e) = {2}
          /\ Len(MissingIn(e, e.to)) = 1

\* the section of the graph with an id
SectionOf(id) == nodes[NodeIndex(nodes, id)]

\* the only policy score a section can have if the bonus of every pair is
\* the mean of the two scores: the bonus of the section paired with a
\* section of its own title and kind, the mean of two equal scores
PairScore(section, K) == calculatePolicyBonus(section, section, K)

RMean(a, b) == RDivInt(RAdd(a, b), 2)

\* C22: every edge of a built graph, from A to B, has the weight
\* (matched / max(countA, countB)) * wSim + bonus * wPolicy with wSim,
\* wPolicy = 0.7, 0.3 for Name&Role and 0.8, 0.2 for Date and Terms, the
\* bonus being the mean of the policy scores of A and B.
C22_WeightIsSimilarityPlusMeanScore ==
  built =>
    \A e \in Range(edges) :
      LET K == e.prop
          base == Rat(Len(e.evidence.matched), Max(CountOf(e.from, K), CountOf(e.to, K)))
          bonus == RMean(PairScore(SectionOf(e.from), K), PairScore(SectionOf(e.to), K))
      IN e.weight =
           IF K = "Name&Role"
           THEN RAdd(RMul(base, Pct(70)), RMul(bonus, Pct(30)))
           ELSE RAdd(RMul(base, Pct(80)), RMul(bonus, Pct(20)))

\* C23: of any two sections the one holding strictly more properties of a
\* kind has the strictly higher score propertyCount * 0.7 + policyScore *
\* 0.3, and the authoritative section of a kind holds at least as many
\* properties of the kind as every cluster member.
C23_CountDominatesScore ==
  Done =>
    \A K \in Kinds :
      /\ \A a \in NodeIds, b \in NodeIds :
           CountOf(a, K) > CountOf(b, K) => RLt(ScoreOf(b, K), ScoreOf(a, K))
      /\ authoritativeSections[K] # None =>
           \A m \in Range(MembersOf(K)) :
             CountOf(authoritativeSections[K], K) >= CountOf(m, K)

\* the title of the section has both keywords
DesignatedOfficerTitle(id) ==
  /\ includes(toLowerCase(SectionOf(id).title), "designated")
  /\ includes(toLowerCase(SectionOf(id).title), "officer")

\* C24: among the sections scored for Name&Role, none has a policy score
\* strictly higher than a section whose title contains both 'designated'
\* and 'officer'.
C24_DesignatedOfficerScoresHighest ==
  Done =>
    \A a \in Range(MembersOf("Name&Role")), b \in Range(MembersOf("Name&Role")) :
      DesignatedOfficerTitle(a) =>
        getSectionPolicyScore(SectionOf(b), "Name&Role")
          <= getSectionPolicyScore(SectionOf(a), "Name&Role")

RECURSIVE LinesOf(_)
\* a content as the sequence of its lines
LinesOf(content) ==
  LET k == FirstIn(content, {"\n"})
  IN IF k = 0 THEN <<content>>
     ELSE <<SubSeq(content, 1, k - 1)>> \o LinesOf(SubSeq(content, k + 1, Len(content)))

\* the lines of a content that hold more than whitespace, in order
NonblankLines(content) ==
  AtIndices(LinesOf(content),
            {l \in 1..Len(LinesOf(content)) : trim(LinesOf(content)[l]) # <<>>})

\* the places of a content where a bullet, numbered or hyphen list item
\* starts
ListItemStarts(content) ==
  {i \in 1..Len(content) : \E p \in 1..3 : matchEnd(p, content, i) # 0}

\* the list item that starts at place i
ListItemAt(content, i) ==
  SubSeq(content, i, matchEnd(CHOOSE p \in 1..3 : matchEnd(p, content, i) # 0, content, i))

LastOf(S) == CHOOSE i \in S : \A j \in S : j <= i

\* C25: the anchor of every suggested update, with the content of its
\* target section seen as lines: for Name&Role and a content with a list
\* item, the list item that occurs last in the content, with strategy
\* 'after_last_list_item'; otherwise the first nonblank line, with strategy
\* 'after_heading'; and strategy 'beginning_of_section' only when the
\* content has no nonblank line.
C25_AnchorByLastItemOrFirstLine ==
  Done =>
    \A u \in Range(report.suggestedUpdates) :
      LET content == SectionOf(u.section).content
      IN IF u.prop = "Name&Role" /\ ListItemStarts(content) # {}
         THEN /\ u.anchorStrategy = "after_last_list_item"
              /\ u.anchor = ListItemAt(content, LastOf(ListItemStarts(content)))
         ELSE IF NonblankLines(content) # <<>>
         THEN /\ u.anchorStrategy = "after_heading"
              /\ u.anchor = trim(NonblankLines(content)[1])
         ELSE u.anchorStrategy = "beginning_of_section"

Min(a, b) == IF a < b THEN a ELSE b

RECURSIVE ClassSum(_, _, _, _)
\* the sum, over the canonical values of A met from place i on for the
\* first time, of min(occurrences in A, occurrences in B)
ClassSum(K, A, B, i) ==
  IF i > Len(A) THEN 0
  ELSE (IF \E j \in 1..(i - 1) : canonicalMatch(K, A[j], A[i]) THEN 0
        ELSE Min(Occurrences(K, A, A[i]), Occurrences(K, B, A[i])))
       + ClassSum(K, A, B, i + 1)

\* the lists that hold the properties of a list in another order
Reorderings(list) ==
  {[i \in 1..Len(list) |-> list[f[i]]] :
     f \in {g \in [1..Len(list) -> 1..Len(list)] :
              \A i \in 1..Len(list), j \in 1..Len(list) : i # j => g[i] # g[j]}}

\* C26: on every edge of a built graph, from A to B, the matched pairs are
\* as many as the sum over the canonical values of min(occurrences in A,
\* occurrences in B); comparing A and B in any order of their properties
\* gives the same matched count and the same two missing counts, and
\* comparing B with A gives the same matched count.
C26_GreedyMatchesClassMinimum ==
  built =>
    \A e \in Range(edges) :
      LET K == e.prop
          A == PropsOf(e.from, K)
          B == PropsOf(e.to, K)
      IN /\ Len(e.evidence.matched) = ClassSum(K, A, B, 1)
         /\ \A A2 \in Reorderings(A), B2 \in Reorderings(B) :
              LET cmp == compareLists(K, A2, B2)
              IN /\ Len(cmp.matched) = Len(e.evidence.matched)
                 /\ Len(cmp.missingInB) = Len(MissingIn(e, e.to))
                 /\ Len(cmp.missingInA) = Len(MissingIn(e, e.from))
         /\ Len(compareLists(K, B, A).matched) = Len(e.evidence.matched)

\* a built graph with an edge on which both properties of A are matched,
\* the first with the second of B and the second with the first of B, one
\* of the pairs in two spellings
C26_Witness ==
  /\ built
  /\ \E e \in Range(edges) :
       /\ Len(PairsOf(e)) = 2
       /\ PairsOf(e)[1] = [a |-> 1, b |-> 2]
       /\ PairsOf(e)[2] = [a |-> 2, b |-> 1]
       /\ \E k \in 1..2 :
            evidenceValue(e.prop, PropsOf(e.from, e.prop)[PairsOf(e)[k].a])
              # evidenceValue(e.prop, PropsOf(e.to, e.prop)[PairsOf(e)[k].b])

\* every section of the document has an inventory entry
CompleteInventory == \A id \in NodeIds : InvHas(inventory, id)

\* C27: on the graph built from the same sections and an inventory with an
\* entry for every section, each kind has at most one cluster, holding
\* exactly the sections with a property of the kind, and every cluster
\* delta has as confidence the nonzero weight of the edge of its kind
\* between its source and its target, so the default 0.75 is not used.
C27_BuiltGraphHasOneCluster ==
  (Done /\ built /\ CompleteInventory) =>
    /\ \A K \in Kinds :
         IF Nonzero(K) = {} THEN clusters[K] = <<>>
         ELSE Len(clusters[K]) = 1 /\ Range(clusters[K][1]) = Nonzero(K)
    /\ \A i \in 1..Len(deltas) :
         ~IsFallbackDelta(deltas[i]) =>
           LET between == EdgesBetween(deltas[i].sourceSection, deltas[i].targetSection,
                                       deltas[i].propType)
           IN /\ between # <<>>
              /\ between[1].weight # RZero
              /\ deltas[i].confidence = between[1].weight

\* a finished run on a built graph of three sections: two of them share no
\* property of the kind and are in the one cluster, the third holds nothing
\* of the kind and is in no cluster, and a cluster delta has the weight of
\* its edge
C27_Witness ==
  /\ Done
  /\ built
  /\ CompleteInventory
  /\ Len(nodes) = 3
  /\ \E K \in Kinds :
       /\ Len(clusters[K]) = 1
       /\ Len(clusters[K][1]) = 2
       /\ \E i \in 1..Len(deltas) :
            /\ deltas[i].propType = K
            /\ ~IsFallbackDelta(deltas[i])
            /\ EdgesBetween(deltas[i].sourceSection, deltas[i].targetSection, K) # <<>>
            /\ deltas[i].confidence
                 = EdgesBetween(deltas[i].sourceSection, deltas[i].targetSection, K)[1].weight

\* the suggested updates of a kind that target a section
UpdatesInto(t, K) ==
  {i \in 1..Len(report.suggestedUpdates) :
     report.suggestedUpdates[i].section = t /\ report.suggestedUpdates[i].prop = K}

\* the edges of a kind, taken once by from, to and kind, that join a
\* section holding nothing of the kind to a section holding some
OneSidedEdgesAt(z, K) ==
  {i \in 1..Len(edges) :
     /\ edges[i].prop = K
     /\ FirstOfItsKey(i)
     /\ \E s \in NodeIds : OneSided(edges[i], z, s)}

\* C28 as stated: for every target section and kind the report has at most
\* one suggested update.
C28_OneUpdatePerTargetAndKind ==
  Done => \A t \in NodeIds : \A K \in Kinds : Cardinality(UpdatesInto(t, K)) <= 1

\* C28: a section holding a property of a kind is the target of at most one
\* suggested update of the kind; a section holding none is the target of at
\* most one per edge of the kind, taken once by from, to and kind, that
\* joins it to a section holding some.
C28_OneUpdatePerHoldingTarget ==
  Done =>
    \A t \in NodeIds : \A K \in Kinds :
      IF CountOf(t, K) > 0 THEN Cardinality(UpdatesInto(t, K)) <= 1
      ELSE Cardinality(UpdatesInto(t, K)) <= Cardinality(OneSidedEdgesAt(t, K))

\* a finished run whose report has two updates of one kind into a section
\* holding nothing of the kind, from two sources: one for each of the two
\* edges that join it to a section holding properties of the kind
C28_Witness ==
  /\ Done
  /\ \E t \in NodeIds : \E K \in Kinds :
       /\ CountOf(t, K) = 0
       /\ Cardinality(UpdatesInto(t, K)) = 2
       /\ Cardinality(OneSidedEdgesAt(t, K)) = 2
       /\ \E i \in UpdatesInto(t, K), j \in UpdatesInto(t, K) :
            report.suggestedUpdates[i].evidenceFrom.section
              # report.suggestedUpdates[j].evidenceFrom.section

\* the reference of the cluster the authoritative section of a kind is in
ReferenceOfAuthority(K) ==
  referenceSection(ClusterOf(authoritativeSections[K], K), K, inventory)

\* the authoritative section of a kind holds strictly more properties of
\* the kind than every other member of its cluster
AuthorityIsLargest(K) ==
  \A m \in Range(ClusterOf(authoritativeSections[K], K)) :
    m # authoritativeSections[K] => CountOf(authoritativeSections[K], K) > CountOf(m, K)

\* C29 as stated: the authoritative section of a kind is the reference of
\* its cluster, and no suggested update of the kind targets it.
C29_AuthorityIsItsClusterReference ==
  Done =>
    \A K \in Kinds :
      authoritativeSections[K] # None =>
        /\ ReferenceOfAuthority(K) = authoritativeSections[K]
        /\ UpdatesInto(authoritativeSections[K], K) = {}

\* C29: the authoritative section of a kind is a member of a cluster whose
\* reference holds at least as many properties of the kind; it is that
\* reference when it holds strictly more than every other member; and
\* when it is the reference no suggested update of the kind targets it.
C29_AuthorityIsReferenceWhenLargest ==
  Done =>
    \A K \in Kinds :
      authoritativeSections[K] # None =>
        /\ authoritativeSections[K] \in Range(MembersOf(K))
        /\ CountOf(ReferenceOfAuthority(K), K) >= CountOf(authoritativeSections[K], K)
        /\ AuthorityIsLargest(K) => ReferenceOfAuthority(K) = authoritativeSections[K]
        /\ ReferenceOfAuthority(K) = authoritativeSections[K]
             => UpdatesInto(authoritativeSections[K], K) = {}

\* a finished run where the authoritative section of a kind is the second
\* member of its cluster, holds more properties than the first, is the
\* reference, and is the source of an update into the first
C29_Witness ==
  /\ Done
  /\ \E K \in Kinds :
       /\ authoritativeSections[K] # None
       /\ Len(ClusterOf(authoritativeSections[K], K)) >= 2
       /\ ClusterOf(authoritativeSections[K], K)[2] = authoritativeSections[K]
       /\ AuthorityIsLargest(K)
       /\ ReferenceOfAuthority(K) = authoritativeSections[K]
       /\ \E u \in Range(report.suggestedUpdates) :
            /\ u.prop = K
            /\ u.evidenceFrom.section = authoritativeSections[K]
            /\ u.section = ClusterOf(authoritativeSections[K], K)[1]

\* every property of both ends of the edge is matched
FullyMatched(e) == e.evidence.matched # <<>> /\ e.evidence.missing = <<>>

\* the title or kind of the section has a keyword the bonus of the kind
\* looks for
HasPolicyKeyword(id, K) ==
  CASE K = "Name&Role" -> isOfficerSection(SectionOf(id))
    [] K = "Date" -> isDateSection(SectionOf(id))
    [] K = "Terms" -> isTermSection(SectionOf(id))

\* the unchanged list has the matched values of the edge
ReportedUnchanged(e) ==
  \A k \in 1..Len(e.evidence.matched) :
    \E u \in Range(report.unchanged) :
      u.prop = e.prop /\ u.value = e.evidence.matched[k].value

====
